---- MODULE Spec2Model ----
(***************************************************************************)
(* A model of the web scraper / analyzer: the retrying fetcher             *)
(* (src/src/scraper/utils.py), the HTML accessors                          *)
(* (src/src/parser/parsers.py), the text analyzer                          *)
(* (src/src/analyzer/text_analysis.py) and the batch loop of main          *)
(* (src/main.py, src/simple_scraper.py).                                   *)
(***************************************************************************)
EXTENDS Integers, Sequences, FiniteSets, TLC

\* Python's None. Texts are sequences of one-character strings, so this
\* one-element sequence is distinct from every text the program handles.
None == <<"None">>

(***************************************************************************)
(* Fetcher: fetch_url(url, session, retry)                                 *)
(***************************************************************************)
VARIABLES
    fBudget,    \* the retry argument of the outermost call
    fRetry,     \* the retry argument of the current (recursive) call
    fDelay,     \* the local `delay` of the current call, in tenths of a second
    fPc,        \* position: "idle" | "sleep" | "get" | "backoff" | "done"
    fLog,       \* what the call did so far: sleeps and GET attempts, in order
    fResult     \* the value returned to the caller (None until a return)

fetchVars == <<fBudget, fRetry, fDelay, fPc, fLog, fResult>>

\* The parser instance.
VARIABLES
    html,       \* the document handed to the parser: its nodes in document
                \* order, <<>> for empty or absent HTML
    soup,       \* self.soup: [isNone, live], live = the nodes still in the tree
    lastCall,   \* the accessor called last ("new" right after construction)
    ret         \* what that call returned, or Raised(..) when it raised

parserVars == <<html, soup, lastCall, ret>>

\* The batch run of main (main.py, simple_scraper.py).
VARIABLES
    mProg,          \* which program runs: "main" (main.py) | "simple" (simple_scraper.py)
    mArgs,          \* the parsed options: [analyze, save_to_db, visualize]
    mUrls,          \* urls: the list the run was asked to process
    mI,             \* the position of the for loop in urls
    mPc,            \* "idle" | "start" | "loop" | "finish" | "done" | "crashed"
    db_session,     \* whether main holds a database session
    db,             \* the database: [websites, pages]
    all_results,    \* the positions in urls of the appended results
    all_analyses,   \* the positions in urls of the appended analyses
    mHist,          \* what happened to each url the loop took, in order
    mLog            \* the log records written, in order

mainVars ==
    <<mProg, mArgs, mUrls, mI, mPc, db_session, db, all_results, all_analyses, mHist, mLog>>

\* One TextAnalyzer instance and the optional libraries around it.
VARIABLES
    aText,      \* self.text (analyze_content: its content_text argument)
    aEnv,       \* the optional capabilities: [textblob, spacy, download, textstat]
    aCall,      \* the call made last, with its arguments
    aRet        \* its outcome: [raised, value]

analyzerVars == <<aText, aEnv, aCall, aRet>>

\* A step of one component leaves the others alone.
FetchOnly == UNCHANGED <<parserVars, mainVars, analyzerVars>>
ParserOnly == UNCHANGED <<fetchVars, mainVars, analyzerVars>>
MainOnly == UNCHANGED <<fetchVars, parserVars, analyzerVars>>
AnalyzerOnly == UNCHANGED <<fetchVars, parserVars, mainVars>>

\* config.py
RETRY_COUNT == 3
REQUESTS_PER_MINUTE == 20
DELAY_BETWEEN_REQUESTS == 60 \div REQUESTS_PER_MINUTE

\* Largest retry budget a caller passes.
MaxRetry == 3

\* random.random() lies in [0, 1): the tenths the model draws from.
RandomTenths == {0, 9}

\* The variant whose jitter is added to the whole base delay.
JitteredDelayAboveBase(r) == DELAY_BETWEEN_REQUESTS * (10 + r)
\* delay = DELAY_BETWEEN_REQUESTS * (0.5 + random.random()), in tenths of a second
JitteredDelay(r) == DELAY_BETWEEN_REQUESTS * (5 + r)

\* What session.get can do: a final response (redirects already followed by
\* the library) with its status code and body, or a transport error, which
\* requests raises as a RequestException.
\* Texts are sequences of one-character strings; <<>> is the empty string.
Bodies ==
    {<<>>, <<"<", "p", ">">>,
     <<"<", "a", " ", "r", "e", "l", "=", "a", "u", "t", "h", "o", "r", ">">>}
Statuses == {200, 304, 404, 503}
Outcomes ==
    [kind : {"response"}, status : Statuses, text : Bodies]
        \cup {[kind |-> "error", status |-> 0, text |-> <<>>]}

\* response.raise_for_status(): HTTPError for a 4xx or 5xx status only.
RaisesForStatus(o) == o.kind = "response" /\ 400 <= o.status /\ o.status < 600

\* The try block raises a RequestException: the transport failed or the
\* status check raised.
RaisesRequestException(o) == o.kind = "error" \/ RaisesForStatus(o)

FetchIdle ==
    /\ fBudget = 0 /\ fRetry = 0 /\ fDelay = 0 /\ fPc = "idle"
    /\ fLog = <<>> /\ fResult = None

\* A caller enters fetch_url(url, retry=N).
FetchInit ==
    /\ fBudget \in 0..MaxRetry
    /\ fRetry = fBudget
    /\ fDelay = 0
    /\ fPc = "sleep"
    /\ fLog = <<>>
    /\ fResult = None

\* delay = ...; time.sleep(delay)
RateLimitSleep ==
    /\ fPc = "sleep"
    /\ \E r \in RandomTenths :
        /\ fDelay' = JitteredDelay(r)
        /\ fLog' = Append(fLog, [ev |-> "sleep", d |-> JitteredDelay(r), status |-> 0])
    /\ fPc' = "get"
    /\ UNCHANGED <<fBudget, fRetry, fResult>>
    /\ FetchOnly

\* The variant of the except branch that never retries.
RetryAllowedNever(retry) == FALSE
\* if retry > 0
RetryAllowed(retry) == retry > 0

\* try: response = session.get(...); response.raise_for_status();
\*      return response.text
\* except RequestException: if retry > 0: ... else return None
Get ==
    /\ fPc = "get"
    /\ \E o \in Outcomes :
        /\ fLog' = Append(fLog, [ev |-> IF o.kind = "error" THEN "get-error" ELSE "get",
                                 d |-> 0, status |-> o.status])
        /\ IF ~RaisesRequestException(o)
           THEN /\ fResult' = o.text
                /\ fPc' = "done"
           ELSE IF RetryAllowed(fRetry)
           THEN /\ fPc' = "backoff"
                /\ UNCHANGED fResult
           ELSE /\ fResult' = None
                /\ fPc' = "done"
    /\ UNCHANGED <<fBudget, fRetry, fDelay>>
    /\ FetchOnly

\* The variant that retries at once, without the doubled sleep.
BackoffWithoutSleep ==
    /\ fPc = "backoff"
    /\ fRetry' = fRetry - 1
    /\ fPc' = "sleep"
    /\ UNCHANGED <<fBudget, fDelay, fResult, fLog>>
    /\ FetchOnly

\* time.sleep(delay * 2); return fetch_url(url, session, retry - 1)
Backoff ==
    /\ fPc = "backoff"
    /\ fLog' = Append(fLog, [ev |-> "sleep", d |-> 2 * fDelay, status |-> 0])
    /\ fRetry' = fRetry - 1
    /\ fPc' = "sleep"
    /\ UNCHANGED <<fBudget, fDelay, fResult>>
    /\ FetchOnly

FetchNext == RateLimitSleep \/ Get \/ Backoff

\* The GET attempts of the log, in order.
GetEvents == SelectSeq(fLog, LAMBDA e : e.ev \in {"get", "get-error"})
Attempts == Len(GetEvents)

\* An attempt failed in the words of the spec: a transport error or a status
\* outside 200..299.
FailedNon2xx(e) == e.ev = "get-error" \/ e.status < 200 \/ e.status > 299
\* An attempt failed with a transport error or an HTTP error status (4xx, 5xx).
FailedHTTPError(e) == e.ev = "get-error" \/ (e.status >= 400 /\ e.status <= 599)

Raised(exc) == <<"raised", exc>>

\* ---- texts -------------------------------------------------------------

\* Whitespace characters of the modelled alphabet.
WS == {" ", "\n"}

RECURSIVE LStrip(_)
LStrip(s) == IF s # <<>> /\ Head(s) \in WS THEN LStrip(Tail(s)) ELSE s

RECURSIVE RStrip(_)
RStrip(s) ==
    IF s # <<>> /\ s[Len(s)] \in WS THEN RStrip(SubSeq(s, 1, Len(s) - 1)) ELSE s

\* str.strip()
Strip(s) == RStrip(LStrip(s))

\* separator.join(strings)
RECURSIVE Join(_, _)
Join(sep, ss) ==
    IF ss = <<>> THEN <<>>
    ELSE IF Len(ss) = 1 THEN ss[1]
    ELSE ss[1] \o sep \o Join(sep, Tail(ss))

\* re.sub(r'\s+', ' ', text)
RECURSIVE CollapseWS(_)
CollapseWS(s) ==
    IF s = <<>> THEN <<>>
    ELSE IF Head(s) \in WS THEN <<" ">> \o CollapseWS(LStrip(s))
    ELSE <<Head(s)>> \o CollapseWS(Tail(s))

\* ---- the document tree -------------------------------------------------

\* A node of the tree. Nodes are numbered in document order; parent = 0 for a
\* child of the BeautifulSoup object itself. An attribute that is not set is
\* NoAttr (matched attributes) or None (attributes whose value is returned).
NoAttr == "#absent"
Element(tag) ==
    [tag |-> tag, parent |-> 0, text |-> <<>>,
     cls |-> NoAttr, rel |-> NoAttr, itemprop |-> NoAttr, name |-> NoAttr,
     property |-> NoAttr,
     content |-> None, datetime |-> None, href |-> None, src |-> None]
Text(t) == [Element("#text") EXCEPT !.text = t]

IsText(n) == n.tag = "#text"

\* Elements the parser closes at once: they never have children.
VoidTags == {"meta", "img", "link"}
\* Elements whose content is raw text: at most text children.
RawTextTags == {"script", "style"}

RECURSIVE Ancestors(_, _)
Ancestors(d, i) ==
    IF d[i].parent = 0 THEN {} ELSE {d[i].parent} \cup Ancestors(d, d[i].parent)

\* A node and everything below it.
Subtree(d, i) == {i} \cup {j \in DOMAIN d : i \in Ancestors(d, j)}

RECURSIVE Ascending(_)
Ascending(S) ==
    IF S = {} THEN <<>>
    ELSE LET m == CHOOSE x \in S : \A y \in S : x <= y
         IN <<m>> \o Ascending(S \ {m})

\* Document order: a node's parent is the node before it or one of that
\* node's ancestors (or the soup itself), and an element that holds it.
MayHold(n, child) ==
    /\ ~IsText(n)
    /\ n.tag \notin VoidTags
    /\ n.tag \in RawTextTags => IsText(child)
\* The parser merges adjacent text, so a text node never follows a text
\* sibling.
AdjacentText(d, i) ==
    i > 1 /\ IsText(d[i]) /\ IsText(d[i - 1]) /\ d[i - 1].parent = d[i].parent
IsParsedTree(d) ==
    \A i \in DOMAIN d :
        /\ d[i].parent < i
        /\ d[i].parent # 0 =>
            /\ i > 1
            /\ d[i].parent \in {i - 1} \cup Ancestors(d, i - 1)
            /\ MayHold(d[d[i].parent], d[i])
        /\ ~AdjacentText(d, i)

\* The tree shapes of k nodes: each node's parent, in document order.
Shapes(k) ==
    {f \in [1..k -> 0..k] :
        \A i \in 1..k :
            /\ f[i] < i
            /\ f[i] # 0 => f[i] \in {i - 1} \cup Ancestors([j \in 1..k |-> [parent |-> f[j]]], i - 1)}

\* Every parsed document of at most n nodes labelled from the palette P.
IsDocOver(d, P, n) ==
    \E k \in 0..n : \E shape \in Shapes(k) : \E labels \in [1..k -> P] :
        /\ d = [i \in 1..k |-> [labels[i] EXCEPT !.parent = shape[i]]]
        /\ IsParsedTree(d)

\* ---- searching and text extraction --------------------------------------

\* find_all: the live elements among the matching nodes, in document order.
FindAll(d, live, matching) ==
    Ascending({i \in live : ~IsText(d[i]) /\ i \in matching})

\* find: the first of them, 0 when there is none.
Find(d, live, matching) ==
    LET all == FindAll(d, live, matching) IN IF all = <<>> THEN 0 ELSE all[1]

\* The text nodes below root (0: the whole soup), in document order.
TextNodes(d, live, root) ==
    Ascending({j \in live : IsText(d[j]) /\ (root = 0 \/ root \in Ancestors(d, j))})

\* get_text(separator, strip): every string below root, stripped and dropped
\* when empty if strip is set, joined by the separator.
GetText(d, live, root, sep, strip) ==
    LET ids == TextNodes(d, live, root)
        strs == [k \in 1..Len(ids) |->
                    IF strip THEN Strip(d[ids[k]].text) ELSE d[ids[k]].text]
    IN Join(sep, IF strip THEN SelectSeq(strs, LAMBDA t : t # <<>>) ELSE strs)

\* ---- BaseParser ---------------------------------------------------------

\* The variant that builds a soup even from empty HTML.
ParseAlways(d) == [isNone |-> FALSE, live |-> DOMAIN d]
\* BaseParser.__init__: BeautifulSoup(html_content) if html_content else None
Parse(d) == [isNone |-> d = <<>>, live |-> DOMAIN d]

get_title(d, sp) ==
    IF sp.isNone THEN None
    ELSE LET t == Find(d, sp.live, {j \in DOMAIN d : LET n == d[j] IN
                 n.tag = "title"})
         IN IF t = 0 THEN None ELSE Strip(GetText(d, sp.live, t, <<>>, FALSE))

get_meta_description(d, sp) ==
    IF sp.isNone THEN None
    ELSE LET m == Find(d, sp.live, {j \in DOMAIN d : LET n == d[j] IN
                 n.tag = "meta" /\ n.name = "description"})
         IN IF m = 0 THEN None
            ELSE Strip(IF d[m].content = None THEN <<>> ELSE d[m].content)

\* re.compile('(content|article|post|main)', re.I) searched in a class value,
\* over the class values the modelled documents use.
MatchesContentRe(c) == c \in {"content", "Post", "main-article"}
\* re.compile('(author|byline)', re.I)
MatchesAuthorRe(c) == c \in {"author", "Byline"}
\* re.compile('(date|time|publish)', re.I)
MatchesDateRe(c) == c \in {"date", "Published"}

MainContainerTags == {"article", "main", "div"}
IsMainContainer(n) ==
    n.tag \in MainContainerTags /\ n.cls # NoAttr /\ MatchesContentRe(n.cls)

\* key=lambda x: len(x.get_text(strip=True))
ContainerKey(d, live, i) == Len(GetText(d, live, i, <<>>, TRUE))

\* The variant of max that lets a later equal candidate win.
ReplacesBestOnTie(k, bestKey) == k >= bestKey
\* max() keeps the first of several maximal items: a later item replaces the
\* running best only when its key is strictly greater.
ReplacesBest(k, bestKey) == k > bestKey

\* max(main_containers, key=...)
RECURSIVE MaxContainer(_, _, _, _)
MaxContainer(d, live, rest, best) ==
    IF rest = <<>> THEN best
    ELSE MaxContainer(d, live, Tail(rest),
            IF ReplacesBest(ContainerKey(d, live, Head(rest)), ContainerKey(d, live, best))
            THEN Head(rest) ELSE best)

get_main_content(d, sp) ==
    IF sp.isNone THEN None
    ELSE LET main_containers == FindAll(d, sp.live, {j \in DOMAIN d : IsMainContainer(d[j])})
             body == Find(d, sp.live, {j \in DOMAIN d : LET n == d[j] IN
                 n.tag = "body"})
         IN IF main_containers # <<>>
            THEN GetText(d, sp.live,
                         MaxContainer(d, sp.live, Tail(main_containers), Head(main_containers)),
                         <<" ">>, TRUE)
            ELSE IF body = 0 THEN None
            ELSE GetText(d, sp.live, body, <<" ">>, TRUE)

get_all_links(d, sp) ==
    IF sp.isNone THEN <<>>
    ELSE LET as == FindAll(d, sp.live, {j \in DOMAIN d : LET n == d[j] IN
                 n.tag = "a" /\ n.href # None})
         IN [k \in 1..Len(as) |-> d[as[k]].href]

get_images(d, sp) ==
    IF sp.isNone THEN <<>>
    ELSE LET imgs == FindAll(d, sp.live, {j \in DOMAIN d : LET n == d[j] IN
                 n.tag = "img" /\ n.src # None})
         IN [k \in 1..Len(imgs) |-> d[imgs[k]].src]

\* The elements get_clean_text removes.
UnwantedTags == {"script", "style", "head", "header", "footer", "nav"}

\* The variant that unlinks the unwanted element but leaves its children.
DecomposedShallow(d, live) == live \ {i \in live : d[i].tag \in UnwantedTags}
\* for element in self.soup([...]): element.decompose()
\* Every unwanted element leaves the tree with its whole subtree.
Decomposed(d, live) ==
    live \ UNION {Subtree(d, i) : i \in {j \in live : d[j].tag \in UnwantedTags}}

\* The tree get_clean_text leaves in self.soup.
soup_after_clean(d, sp) ==
    IF sp.isNone THEN sp ELSE [sp EXCEPT !.live = Decomposed(d, sp.live)]

get_clean_text(d, sp) ==
    IF sp.isNone THEN <<>>
    ELSE Strip(CollapseWS(GetText(d, Decomposed(d, sp.live), 0, <<" ">>, TRUE)))

\* ---- ArticleParser ------------------------------------------------------

AuthorTags == {"a", "span", "div", "p"}

\* for pattern in author_patterns: self.soup.find(['a','span','div','p'], **pattern)
\* The fourth pattern passes name= as a keyword beside the positional name
\* argument of find: the call raises TypeError before any search.
get_author(d, sp) ==
    IF sp.isNone THEN None
    ELSE LET byClass == Find(d, sp.live, {j \in DOMAIN d : LET n == d[j] IN
                 n.tag \in AuthorTags /\ n.cls # NoAttr /\ MatchesAuthorRe(n.cls)})
             byRel == Find(d, sp.live, {j \in DOMAIN d : LET n == d[j] IN
                 n.tag \in AuthorTags /\ n.rel = "author"})
             byItemprop == Find(d, sp.live, {j \in DOMAIN d : LET n == d[j] IN
                 n.tag \in AuthorTags /\ n.itemprop = "author"})
         IN IF byClass # 0 THEN GetText(d, sp.live, byClass, <<>>, TRUE)
            ELSE IF byRel # 0 THEN GetText(d, sp.live, byRel, <<>>, TRUE)
            ELSE IF byItemprop # 0 THEN GetText(d, sp.live, byItemprop, <<>>, TRUE)
            ELSE Raised("TypeError")

PublishedTimeProperties == {"article:published_time", "og:published_time"}
DateTags == {"span", "div", "p"}

get_publish_date(d, sp) ==
    IF sp.isNone THEN None
    ELSE LET meta_date == Find(d, sp.live, {j \in DOMAIN d : LET n == d[j] IN
                 n.tag = "meta" /\ n.property \in PublishedTimeProperties})
             time_tag == Find(d, sp.live, {j \in DOMAIN d : LET n == d[j] IN
                 n.tag = "time"})
             date_tag == Find(d, sp.live, {j \in DOMAIN d : LET n == d[j] IN
                 n.tag \in DateTags /\ n.cls # NoAttr /\ MatchesDateRe(n.cls)})
         IN IF meta_date # 0 THEN d[meta_date].content
            ELSE IF time_tag # 0 /\ d[time_tag].datetime # None THEN d[time_tag].datetime
            ELSE IF date_tag # 0 THEN GetText(d, sp.live, date_tag, <<>>, TRUE)
            ELSE None

\* ---- calls on one parser instance ---------------------------------------

Accessors ==
    {"get_title", "get_meta_description", "get_main_content", "get_all_links",
     "get_images", "get_clean_text", "get_author", "get_publish_date"}

\* What accessor a returns on the tree sp of document d.
Value(a, d, sp) ==
    CASE a = "get_title" -> get_title(d, sp)
      [] a = "get_meta_description" -> get_meta_description(d, sp)
      [] a = "get_main_content" -> get_main_content(d, sp)
      [] a = "get_all_links" -> get_all_links(d, sp)
      [] a = "get_images" -> get_images(d, sp)
      [] a = "get_clean_text" -> get_clean_text(d, sp)
      [] a = "get_author" -> get_author(d, sp)
      [] a = "get_publish_date" -> get_publish_date(d, sp)

GetTitle ==
    /\ lastCall # "idle"
    /\ lastCall' = "get_title"
    /\ ret' = get_title(html, soup)
    /\ UNCHANGED <<html, soup>>
    /\ ParserOnly

GetMetaDescription ==
    /\ lastCall # "idle"
    /\ lastCall' = "get_meta_description"
    /\ ret' = get_meta_description(html, soup)
    /\ UNCHANGED <<html, soup>>
    /\ ParserOnly

GetMainContent ==
    /\ lastCall # "idle"
    /\ lastCall' = "get_main_content"
    /\ ret' = get_main_content(html, soup)
    /\ UNCHANGED <<html, soup>>
    /\ ParserOnly

GetAllLinks ==
    /\ lastCall # "idle"
    /\ lastCall' = "get_all_links"
    /\ ret' = get_all_links(html, soup)
    /\ UNCHANGED <<html, soup>>
    /\ ParserOnly

GetImages ==
    /\ lastCall # "idle"
    /\ lastCall' = "get_images"
    /\ ret' = get_images(html, soup)
    /\ UNCHANGED <<html, soup>>
    /\ ParserOnly

GetAuthor ==
    /\ lastCall # "idle"
    /\ lastCall' = "get_author"
    /\ ret' = get_author(html, soup)
    /\ UNCHANGED <<html, soup>>
    /\ ParserOnly

GetPublishDate ==
    /\ lastCall # "idle"
    /\ lastCall' = "get_publish_date"
    /\ ret' = get_publish_date(html, soup)
    /\ UNCHANGED <<html, soup>>
    /\ ParserOnly

\* get_clean_text decomposes the unwanted elements of self.soup itself.
GetCleanText ==
    /\ lastCall # "idle"
    /\ lastCall' = "get_clean_text"
    /\ ret' = get_clean_text(html, soup)
    /\ soup' = soup_after_clean(html, soup)
    /\ UNCHANGED html
    /\ ParserOnly

ParserNext ==
    \/ GetTitle \/ GetMetaDescription \/ GetMainContent \/ GetAllLinks
    \/ GetImages \/ GetCleanText \/ GetAuthor \/ GetPublishDate

\* ---- the documents the parser is run on ---------------------------------

\* Largest number of nodes of a document.
MaxNodes == 3

\* Pages with head matter, scripts and navigation around their text.
CleanPalette ==
    {Element("head"), Element("title"), Element("script"), Element("nav"),
     Element("div"), Text(<<"a">>), Text(<<" ", "b", "\n">>)}

\* Article pages: a body with paragraphs and the author and date markers.
ArticlePalette ==
    {Element("body"), Element("p"),
     [Element("span") EXCEPT !.cls = "Byline"],
     [Element("time") EXCEPT !.datetime = <<"2", "0">>],
     [Element("a") EXCEPT !.href = <<"/">>],
     [Element("img") EXCEPT !.src = <<"i">>],
     Text(<<"a">>)}

\* Pages with candidate content containers.
MainPalette ==
    {Element("body"),
     [Element("div") EXCEPT !.cls = "content"],
     [Element("article") EXCEPT !.cls = "Post"],
     Text(<<"a">>), Text(<<"c">>), Text(<<"b", "b">>)}

\* Pages with the author and date markers the ArticleParser looks for, on
\* the elements it searches and on others.
MarkerPalette ==
    {[Element("span") EXCEPT !.cls = "author"],
     [Element("a") EXCEPT !.rel = "author"],
     [Element("link") EXCEPT !.rel = "author"],
     [Element("h3") EXCEPT !.itemprop = "author"],
     [Element("meta") EXCEPT !.property = "og:published_time", !.content = <<"2", "1">>],
     [Element("meta") EXCEPT !.property = "article:published_time"],
     [Element("time") EXCEPT !.datetime = <<"2", "0">>],
     Element("time"),
     [Element("p") EXCEPT !.cls = "date"],
     Text(<<"a">>), Text(<<"b">>)}

\* Pages with a head, a header and the markers scrape_url reads after
\* get_clean_text.
RecordPalette ==
    {Element("head"), Element("header"),
     [Element("meta") EXCEPT !.property = "og:published_time", !.content = <<"2", "1">>],
     [Element("span") EXCEPT !.cls = "author"],
     [Element("time") EXCEPT !.datetime = <<"2", "0">>],
     Text(<<"a">>), Text(<<"b">>)}

ParserIdle == html = <<>> /\ soup = Parse(<<>>) /\ lastCall = "idle" /\ ret = None

\* parser = ArticleParser(html_content, url), on a document of palette P
ParserInit(P, n) ==
    /\ IsDocOver(html, P, n)
    /\ soup = Parse(html)
    /\ lastCall = "new"
    /\ ret = None

(***************************************************************************)
(* Properties of the parser                                                *)
(***************************************************************************)

\* The document has a <body> and everything else inside it.
OnlyBody(d) ==
    /\ d # <<>>
    /\ d[1].tag = "body"
    /\ \A i \in DOMAIN d : i > 1 => 1 \in Ancestors(d, i) /\ d[i].tag # "body"

\* No element carries an author or date marker.
NoAuthorOrDateMarker(d) ==
    \A i \in DOMAIN d :
        /\ d[i].cls = NoAttr \/ ~(MatchesAuthorRe(d[i].cls) \/ MatchesDateRe(d[i].cls))
        /\ d[i].rel # "author"
        /\ d[i].itemprop # "author"
        /\ d[i].property \notin PublishedTimeProperties
        /\ d[i].tag # "time"

\* C2 as stated: on a document with only a <body> and no author or date
\* marker, get_author() and get_publish_date() return None and do not raise.
C2_AsStated ==
    (OnlyBody(html) /\ NoAuthorOrDateMarker(html) /\ lastCall \in {"get_author", "get_publish_date"})
        => ret = None

\* C3 as stated: whatever was called before, an accessor returns what it
\* returns on the freshly parsed document.
C3_AsStated ==
    lastCall \in Accessors => ret = Value(lastCall, html, Parse(html))

\* A text node of the document lies inside a script, style, head, header,
\* footer or nav element.
InsideUnwanted(d, j) ==
    \E a \in Ancestors(d, j) :
        d[a].tag \in {"script", "style", "head", "header", "footer", "nav"}

\* The texts of the document outside those elements, in document order,
\* stripped, the empty ones dropped.
OutsideTexts(d) ==
    LET ids == Ascending({j \in DOMAIN d : IsText(d[j]) /\ ~InsideUnwanted(d, j)})
    IN SelectSeq([k \in 1..Len(ids) |-> Strip(d[ids[k]].text)], LAMBDA t : t # <<>>)

\* C6: the text get_clean_text() returns is made of the text nodes outside
\* every script, style, head, header, footer and nav subtree and of nothing
\* else, at whatever depth those elements occur and however often the
\* accessor was called; and no node of such a subtree is left in the tree.
C6_CleanTextExcludesUnwanted ==
    lastCall = "get_clean_text" =>
        /\ ret = Strip(CollapseWS(Join(<<" ">>, OutsideTexts(html))))
        /\ \A j \in soup.live :
              ~InsideUnwanted(html, j)
              /\ html[j].tag \notin {"script", "style", "head", "header", "footer", "nav"}

\* get_clean_text() ran on a document that has non-blank text two levels
\* below an unwanted element, and returned nothing of it.
C6_Witness ==
    /\ lastCall = "get_clean_text"
    /\ \E j \in DOMAIN html :
        /\ IsText(html[j]) /\ Strip(html[j].text) # <<>>
        /\ InsideUnwanted(html, j)
        /\ html[html[j].parent].tag \notin UnwantedTags
    /\ ret = <<>>

\* The candidate containers of get_main_content, and the length it compares:
\* the stripped texts of a container, without separators.
Candidates(d) ==
    {i \in DOMAIN d :
        /\ d[i].tag \in {"article", "main", "div"}
        /\ d[i].cls # NoAttr /\ MatchesContentRe(d[i].cls)}
RECURSIVE SumLen(_)
SumLen(ss) == IF ss = <<>> THEN 0 ELSE Len(Head(ss)) + SumLen(Tail(ss))
StrippedTexts(d, i) ==
    LET ids == Ascending({j \in DOMAIN d : IsText(d[j]) /\ i \in Ancestors(d, j)})
    IN SelectSeq([k \in 1..Len(ids) |-> Strip(d[ids[k]].text)], LAMBDA t : t # <<>>)
TextLength(d, i) == SumLen(StrippedTexts(d, i))
BodyElements(d) == {i \in DOMAIN d : d[i].tag = "body"}
First(S) == CHOOSE x \in S : \A y \in S : x <= y

\* C7: on a freshly parsed document get_main_content() returns the
\* space-joined text of the candidate of greatest text length, the first in
\* document order among those of that length; the text of the first <body>
\* when there is no candidate; None when there is no body either.
C7_MainContentLargestFirst ==
    (lastCall = "get_main_content" /\ soup = Parse(html) /\ html # <<>>) =>
        LET c == Candidates(html)
            longest == {i \in c : \A k \in c : TextLength(html, k) <= TextLength(html, i)}
        IN IF c # {} THEN ret = Join(<<" ">>, StrippedTexts(html, First(longest)))
           ELSE IF BodyElements(html) # {} THEN ret = Join(<<" ">>, StrippedTexts(html, First(BodyElements(html))))
           ELSE ret = None

\* Two candidates of the same, greatest length and different text: the first
\* one's text came back.
C7_Witness ==
    /\ lastCall = "get_main_content"
    /\ \E i, k \in Candidates(html) :
        /\ i < k
        /\ TextLength(html, i) = TextLength(html, k)
        /\ \A m \in Candidates(html) : TextLength(html, m) <= TextLength(html, i)
        /\ StrippedTexts(html, i) # StrippedTexts(html, k)
        /\ ret = Join(<<" ">>, StrippedTexts(html, i))

\* C8: with empty or absent HTML every accessor returns its absent value:
\* None for title, meta description, main content, author and publish date,
\* an empty list for links and images, the empty string for the clean text.
C8_EmptyDocument ==
    html = <<>> =>
        /\ lastCall \in {"get_title", "get_meta_description", "get_main_content",
                         "get_author", "get_publish_date"} => ret = None
        /\ lastCall \in {"get_all_links", "get_images", "get_clean_text"} => ret = <<>>

\* get_clean_text() was called on the empty document and returned "".
C8_Witness == html = <<>> /\ soup.isNone /\ lastCall = "get_clean_text" /\ ret = <<>>

(***************************************************************************)
(* The batch loop: main() of main.py and of simple_scraper.py              *)
(***************************************************************************)

\* Most URLs of one run.
MaxUrls == 2

\* The URLs of the runs, with extract_domain(url) = urlparse(url).netloc.
Urls == {"http://a.com/1", "http://a.com/2", "http://b.org/1"}
extract_domain(url) ==
    CASE url = "http://a.com/1" -> "a.com"
      [] url = "http://a.com/2" -> "a.com"
      [] url = "http://b.org/1" -> "b.org"

UrlLists == UNION {[1..n -> Urls] : n \in 1..MaxUrls}

\* What scrape_url(url, output_dir) does with one URL:
\*   "none"           fetch_url gave nothing usable: "Failed to fetch" is
\*                    logged and None returned
\*   "raises"         an exception leaves scrape_url (an accessor raising,
\*                    the JSON file not writable)
\*   "record-no-text" a record whose content_text is empty
\*   "record"         a record with text
ScrapeOutcomes == {"none", "raises", "record-no-text", "record"}

\* What a commit does: it succeeds, or the commit of the new Website row
\* or of the Page row raises.
DbFaults == {"no-fault", "website-commit", "page-commit"}

\* What analyze_content(text) does on non-empty text: it returns a result,
\* raises an Exception, or the process is told to exit (SystemExit from the
\* model download inside extract_entities).
AnalysisOutcomes == {"result", "raises", "exit"}

\* What visualize_results does: it returns, or raises.
VisualizeOutcomes == {"returns", "raises"}

\* setup_database(): init_db(), then create_engine(DB_CONNECTION_STRING).
\* main.py imports BASE_DIR, RAW_DATA_DIR and PROCESSED_DATA_DIR from
\* src.config and never DB_CONNECTION_STRING: the call raises NameError.
setup_database == Raised("NameError")

\* The try block around the database writes of one result: insert the
\* Website row if no row has the domain and commit, then insert the Page row
\* and commit; any exception is logged and the session rolled back.
db_save(d, url, fault) ==
    LET domain == extract_domain(url)
        missing == domain \notin d.websites
        websiteFails == missing /\ fault = "website-commit"
        withWebsite == [d EXCEPT !.websites = @ \cup {domain}]
        \* Page.url is unique: a second row for the same url fails the commit.
        pageFails == fault = "page-commit" \/ \E pg \in d.pages : pg.url = url
    IN IF websiteFails THEN [db |-> d, error |-> TRUE]
       ELSE IF pageFails THEN [db |-> withWebsite, error |-> TRUE]
       ELSE [db |-> [withWebsite EXCEPT !.pages = @ \cup {[url |-> url, website_id |-> domain]}],
             error |-> FALSE]

MainIdle ==
    /\ mProg = "idle" /\ mArgs = [analyze |-> FALSE, save_to_db |-> FALSE, visualize |-> FALSE]
    /\ mUrls = <<>> /\ mI = 0 /\ mPc = "idle" /\ db_session = FALSE
    /\ db = [websites |-> {}, pages |-> {}]
    /\ all_results = <<>> /\ all_analyses = <<>> /\ mHist = <<>> /\ mLog = <<>>

\* The arguments are parsed and the URL list is read.
MainInit ==
    /\ mProg \in {"main", "simple"}
    /\ mArgs \in [analyze : BOOLEAN, save_to_db : BOOLEAN, visualize : BOOLEAN]
    /\ mProg = "simple" => mArgs = [analyze |-> FALSE, save_to_db |-> FALSE, visualize |-> FALSE]
    /\ mUrls \in UrlLists
    /\ mI = 1
    /\ mPc = "start"
    /\ db_session = FALSE
    /\ db = [websites |-> {}, pages |-> {}]
    /\ all_results = <<>> /\ all_analyses = <<>> /\ mHist = <<>> /\ mLog = <<>>

\* db_session = None; if args.save_to_db: db_session = setup_database()
\* An exception here is outside every try block: it ends the run.
SetupDatabase ==
    /\ mPc = "start"
    /\ IF mArgs.save_to_db
       THEN IF setup_database = Raised("NameError")
            THEN mPc' = "crashed" /\ UNCHANGED db_session
            ELSE mPc' = "loop" /\ db_session' = TRUE
       ELSE mPc' = "loop" /\ UNCHANGED db_session
    /\ UNCHANGED <<mProg, mArgs, mUrls, mI, db, all_results, all_analyses, mHist, mLog>>
    /\ MainOnly

\* except Exception: SystemExit is a BaseException and passes through.
EscapesExceptException(an) == an = "exit"

\* One iteration of `for url in urls`, with its try / except Exception.
ProcessUrl ==
    /\ mPc = "loop"
    /\ mI <= Len(mUrls)
    /\ \E page \in ScrapeOutcomes, fault \in DbFaults, an \in AnalysisOutcomes :
        LET url == mUrls[mI]
            scraped == page \in {"record", "record-no-text"}
            saving == scraped /\ mArgs.save_to_db /\ db_session
            saved == db_save(db, url, fault)
            analysing == scraped /\ mArgs.analyze
            \* analyze_content: None ("No content to analyze") on empty text
            analysis == IF ~analysing THEN "skipped"
                        ELSE IF page = "record-no-text" THEN "none"
                        ELSE an
            exits == analysing /\ analysis # "none" /\ EscapesExceptException(analysis)
            logScrape == IF page = "none" THEN <<[msg |-> "Failed to fetch", at |-> mI]>>
                         ELSE IF page = "raises" THEN <<[msg |-> "Error processing", at |-> mI]>>
                         ELSE IF mProg = "simple" THEN <<[msg |-> "Successfully scraped", at |-> mI]>>
                         ELSE <<>>
            logDb == IF ~saving THEN <<>>
                     ELSE IF saved.error THEN <<[msg |-> "Error saving to database", at |-> mI]>>
                     ELSE <<[msg |-> "Saved to database", at |-> mI]>>
            logAnalysis == IF analysis = "none" THEN <<[msg |-> "No content to analyze", at |-> mI]>>
                           ELSE IF analysis = "raises" THEN <<[msg |-> "Error processing", at |-> mI]>>
                           ELSE IF analysis = "result" THEN <<[msg |-> "Saved analysis", at |-> mI]>>
                           ELSE <<>>
        IN /\ mHist' = Append(mHist,
                  [url |-> url, scrape |-> page,
                   db |-> IF ~saving THEN "skipped" ELSE IF saved.error THEN "error" ELSE "saved",
                   analysis |-> analysis])
           /\ all_results' = IF scraped THEN Append(all_results, mI) ELSE all_results
           /\ db' = IF saving THEN saved.db ELSE db
           /\ all_analyses' = IF analysis = "result" THEN Append(all_analyses, mI) ELSE all_analyses
           /\ mLog' = mLog \o logScrape \o logDb \o logAnalysis
           /\ IF exits
              THEN mPc' = "crashed" /\ UNCHANGED mI
              ELSE mPc' = "loop" /\ mI' = mI + 1
    /\ UNCHANGED <<mProg, mArgs, mUrls, db_session>>
    /\ MainOnly

\* After the loop: the visualizations if asked for and there are analyses,
\* then logger.info(f"Processed {len(all_results)} URLs").
Finish ==
    /\ mPc = "loop"
    /\ mI > Len(mUrls)
    /\ \E vis \in VisualizeOutcomes :
        IF mArgs.visualize /\ all_analyses # <<>> /\ vis = "raises"
        THEN mPc' = "crashed" /\ UNCHANGED mLog
        ELSE /\ mPc' = "done"
             /\ mLog' = Append(mLog, [msg |-> "Processed", n |-> Len(all_results)])
    /\ UNCHANGED <<mProg, mArgs, mUrls, mI, db_session, db, all_results, all_analyses, mHist>>
    /\ MainOnly

\* ---- scrape_url of main.py ------------------------------------------------

\* BeautifulSoup(html_content, 'html.parser') on the bodies the modelled
\* servers send.
ParsedBody(text) ==
    CASE text = <<>> -> <<>>
      [] text = <<"<", "p", ">">> -> <<Element("p")>>
      [] text = <<"<", "a", " ", "r", "e", "l", "=", "a", "u", "t", "h", "o", "r", ">">>
            -> <<[Element("a") EXCEPT !.rel = "author"]>>

\* if not html_content: None and the empty string alike
NotHtmlContent(text) == text = None \/ text = <<>>

\* The data dictionary of scrape_url, its entries evaluated in the order of
\* the dictionary display: get_title, get_meta_description, get_clean_text
\* (which prunes self.soup), get_author, get_publish_date. An exception of
\* an accessor leaves scrape_url.
scrape_url_data(d, sp) ==
    LET title == get_title(d, sp)
        meta_description == get_meta_description(d, sp)
        content_text == get_clean_text(d, sp)
        pruned == soup_after_clean(d, sp)
        author == get_author(d, pruned)
        published_date == get_publish_date(d, pruned)
    IN IF author = Raised("TypeError") THEN [kind |-> "raised", exc |-> "TypeError"]
       ELSE [kind |-> "record", title |-> title, meta_description |-> meta_description,
             content_text |-> content_text, author |-> author,
             published_date |-> published_date]

\* html_content = fetch_url(url); if not html_content: log "Failed to
\* fetch", return None; else parser = ArticleParser(html_content, url)
ScrapeUrlFetch ==
    /\ fPc = "done" /\ lastCall = "idle"
    /\ IF NotHtmlContent(fResult)
       THEN /\ lastCall' = "scrape_url"
            /\ ret' = [kind |-> "none"]
            /\ mLog' = Append(mLog, [msg |-> "Failed to fetch", at |-> 0])
            /\ UNCHANGED <<html, soup>>
       ELSE /\ html' = ParsedBody(fResult)
            /\ soup' = Parse(ParsedBody(fResult))
            /\ lastCall' = "new"
            /\ UNCHANGED <<ret, mLog>>
    /\ UNCHANGED <<mProg, mArgs, mUrls, mI, mPc, db_session, db, all_results, all_analyses, mHist>>
    /\ UNCHANGED <<fetchVars, analyzerVars>>

\* data = {...}; return data
ScrapeUrlExtract ==
    /\ lastCall = "new"
    /\ lastCall' = "scrape_url"
    /\ ret' = scrape_url_data(html, soup)
    /\ soup' = soup_after_clean(html, soup)
    /\ UNCHANGED html
    /\ ParserOnly

\* scrape_url calls fetch_url(url): the retry budget is the default.
ScrapeInit == FetchInit /\ fBudget = RETRY_COUNT

ScrapeNext == RateLimitSleep \/ Get \/ Backoff \/ ScrapeUrlFetch \/ ScrapeUrlExtract
RecordNext == ScrapeUrlExtract

MainNext == SetupDatabase \/ ProcessUrl \/ Finish

\* The URLs scrape_url was invoked on, in order.
ScrapeCalls == [k \in 1..Len(mHist) |-> mHist[k].url]

\* The run is over: main returned, or an exception or exit ended it.
RunOver == mPc \in {"done", "crashed"}

\* C4 as stated: whatever fails for one URL, and with any combination of
\* --analyze and --save-to-db, the run scrapes every URL of the list once, in
\* list order.
C4_AsStated == RunOver => ScrapeCalls = mUrls

\* The iteration at position k of urls completed without any failure.
CompletedWithoutFailure(k) ==
    /\ k <= Len(mHist)
    /\ mHist[k].scrape \in {"record", "record-no-text"}
    /\ mHist[k].db # "error"
    /\ mHist[k].analysis \notin {"raises", "exit"}

\* C9 as stated: when main has run to its end the log holds a report whose
\* success count is the number of URLs processed without any failure and
\* which carries the total number of URLs requested.
C9_AsStated ==
    mPc = "done" =>
        \E k \in DOMAIN mLog :
            /\ mLog[k].msg = "Processed"
            /\ mLog[k].n = Cardinality({i \in DOMAIN mUrls : CompletedWithoutFailure(i)})
            /\ "total" \in DOMAIN mLog[k]
            /\ mLog[k].total = Len(mUrls)

(***************************************************************************)
(* Text analyzer: TextAnalyzer and analyze_content                         *)
(***************************************************************************)

\* The outcome of a call: a returned value, or the exception that left it.
Returned(v) == [raised |-> "", value |-> v]
Raises(exc) == [raised |-> exc, value |-> <<>>]

\* str.lower(), over the letters the modelled texts use.
LowerChar(c) ==
    CASE c = "T" -> "t"
      [] c = "C" -> "c"
      [] OTHER -> c
lower(text) == [i \in 1..Len(text) |-> LowerChar(text[i])]

\* string.punctuation, the characters of it the modelled texts use.
Punctuation == {".", ",", "!", "?"}
\* text.translate(str.maketrans('', '', string.punctuation))
strip_punctuation(text) == SelectSeq(text, LAMBDA c : c \notin Punctuation)

\* Splitting at whitespace: the words of a text, as str.split() gives them.
RECURSIVE SplitFrom(_, _, _)
SplitFrom(text, word, out) ==
    IF text = <<>> THEN (IF word = <<>> THEN out ELSE Append(out, word))
    ELSE IF Head(text) \in WS
         THEN SplitFrom(Tail(text), <<>>, IF word = <<>> THEN out ELSE Append(out, word))
         ELSE SplitFrom(Tail(text), Append(word, Head(text)), out)
split(text) == SplitFrom(text, <<>>, <<>>)

\* A word with each punctuation character set apart as a token of its own.
RECURSIVE PunctApart(_, _, _)
PunctApart(word, cur, out) ==
    IF word = <<>> THEN (IF cur = <<>> THEN out ELSE Append(out, cur))
    ELSE IF Head(word) \in Punctuation
         THEN PunctApart(Tail(word), <<>>,
                         Append(IF cur = <<>> THEN out ELSE Append(out, cur), <<Head(word)>>))
         ELSE PunctApart(Tail(word), Append(cur, Head(word)), out)

RECURSIVE Flatten(_)
Flatten(ss) == IF ss = <<>> THEN <<>> ELSE Head(ss) \o Flatten(Tail(ss))

\* nltk's word_tokenize: the words between whitespace, punctuation marks
\* as separate tokens.
word_tokenize(text) ==
    LET words == split(text)
    IN Flatten([k \in 1..Len(words) |-> PunctApart(words[k], <<>>, <<>>)])

\* stopwords.words('english'), the members of it the modelled texts can form.
StopWords == {<<"t", "h", "e">>, <<"o", "n">>, <<"a">>, <<"w", "e">>}

\* TextAnalyzer.preprocess(lowercase, remove_punctuation, remove_stopwords)
preprocess(text, lowercase, remove_punctuation, remove_stopwords) ==
    LET t1 == IF lowercase THEN lower(text) ELSE text
        t2 == IF remove_punctuation THEN strip_punctuation(t1) ELSE t1
        tokens == word_tokenize(t2)
    IN IF remove_stopwords THEN SelectSeq(tokens, LAMBDA t : t \notin StopWords) ELSE tokens

\* get_word_frequency's default min_word_length
DEFAULT_MIN_WORD_LENGTH == 3
\* analyze_content asks for the 50 most common words
ANALYSIS_TOP_N == 50

\* Counter(tokens): the distinct tokens in the order of their first
\* occurrence, each with the number of its occurrences.
RECURSIVE FirstOccurrences(_, _)
FirstOccurrences(tokens, seen) ==
    IF tokens = <<>> THEN <<>>
    ELSE IF Head(tokens) \in seen THEN FirstOccurrences(Tail(tokens), seen)
    ELSE <<Head(tokens)>> \o FirstOccurrences(Tail(tokens), seen \cup {Head(tokens)})
CountOf(tokens, t) == Cardinality({i \in DOMAIN tokens : tokens[i] = t})
Counter(tokens) ==
    LET keys == FirstOccurrences(tokens, {})
    IN [k \in 1..Len(keys) |-> <<keys[k], CountOf(tokens, keys[k])>>]

\* The variant that lets the later of two equally frequent words go first.
GoesBeforeLaterFirst(items, i, j) ==
    items[i][2] > items[j][2] \/ (items[i][2] = items[j][2] /\ i > j)
\* The order of most_common: by count, descending; the sort is stable, so
\* of two equal counts the entry inserted first stays first.
GoesBefore(items, i, j) ==
    items[i][2] > items[j][2] \/ (items[i][2] = items[j][2] /\ i < j)

\* sorted(items, key=count, reverse=True)
RECURSIVE SortedFrom(_, _)
SortedFrom(items, left) ==
    IF left = {} THEN <<>>
    ELSE LET top == CHOOSE i \in left : \A j \in left \ {i} : GoesBefore(items, i, j)
         IN <<items[top]>> \o SortedFrom(items, left \ {top})

\* Counter.most_common(n)
most_common(items, n) ==
    LET sorted == SortedFrom(items, DOMAIN items)
    IN SubSeq(sorted, 1, IF n < Len(sorted) THEN n ELSE Len(sorted))

\* TextAnalyzer.get_word_frequency(top_n, min_word_length). top_n = 0 stands
\* for an argument `if top_n:` takes as not given (None, the default).
get_word_frequency(text, top_n, min_word_length) ==
    LET tokens == SelectSeq(preprocess(text, TRUE, TRUE, TRUE),
                            LAMBDA t : Len(t) >= min_word_length)
        freq_dist == Counter(tokens)
    IN IF top_n # 0 THEN most_common(freq_dist, top_n) ELSE freq_dist

\* nltk's sent_tokenize: a sentence ends with a word that ends in ".", "!"
\* or "?"; the last sentence ends with the text.
RECURSIVE SentencesFrom(_, _, _)
SentencesFrom(words, cur, out) ==
    IF words = <<>> THEN (IF cur = <<>> THEN out ELSE Append(out, Join(<<" ">>, cur)))
    ELSE LET wd == Head(words)
         IN IF wd[Len(wd)] \in {".", "!", "?"}
            THEN SentencesFrom(Tail(words), <<>>, Append(out, Join(<<" ">>, Append(cur, wd))))
            ELSE SentencesFrom(Tail(words), Append(cur, wd), out)
get_sentences(text) == SentencesFrom(split(text), <<>>, <<>>)

\* What the optional libraries compute, when they are there.
Polarities == {-1, 1}
Subjectivities == {1}
EntityMappings == {{}, {[label |-> "PERSON", texts |-> <<<<"c", "a", "t">>, <<"c", "a", "t">>>>]}}
ReadabilityMetrics ==
    {"flesch_reading_ease", "flesch_kincaid_grade", "smog_index",
     "coleman_liau_index", "automated_readability_index"}

\* The optional capabilities of the installation:
\*   textblob, textstat: "installed" | "missing"
\*   spacy: "missing" | "model-missing" (the library without en_core_web_sm)
\*          | "model-installed"
\*   download: what spacy.cli.download does when it is asked for the model:
\*          "installs" it, "exits" (it ends the process with SystemExit when
\*          the download fails), or returns with the model still not
\*          loadable ("load-fails")
Envs ==
    [textblob : {"installed", "missing"},
     spacy : {"missing", "model-missing", "model-installed"},
     download : {"installs", "exits", "load-fails"},
     textstat : {"installed", "missing"}]

\* get_sentiment: except ImportError -> {'polarity': 0, 'subjectivity': 0}
get_sentiment(env, pol, subj) ==
    IF env.textblob = "missing" THEN Returned([polarity |-> 0, subjectivity |-> 0])
    ELSE Returned([polarity |-> pol, subjectivity |-> subj])

\* extract_entities: import spacy; spacy.load, and on OSError download and
\* load again; except ImportError -> {}. Only ImportError is caught: the
\* SystemExit of a failed download and the OSError of the second load leave
\* the method.
extract_entities(env, ents) ==
    IF env.spacy = "missing" THEN Returned({})
    ELSE IF env.spacy = "model-installed" THEN Returned(ents)
    ELSE IF env.download = "exits" THEN Raises("SystemExit")
    ELSE IF env.download = "load-fails" THEN Raises("OSError")
    ELSE Returned(ents)

\* The installation after extract_entities: a download that worked leaves
\* the model installed.
env_after_entities(env) ==
    IF env.spacy = "model-missing" /\ env.download = "installs"
    THEN [env EXCEPT !.spacy = "model-installed"] ELSE env

\* get_readability_scores: except ImportError -> {}
get_readability_scores(env) ==
    IF env.textstat = "missing" THEN Returned({}) ELSE Returned(ReadabilityMetrics)

\* len(s.split()) summed over the sentences
RECURSIVE TotalWords(_)
TotalWords(sentences) ==
    IF sentences = <<>> THEN 0 ELSE Len(split(Head(sentences))) + TotalWords(Tail(sentences))

\* The variant that divides whatever the number of sentences.
average_sentence_length_unguarded(sentences) ==
    [num |-> TotalWords(sentences), den |-> Len(sentences)]
\* sum(...) / len(sentences) if sentences else 0, as the fraction num/den
average_sentence_length(sentences) ==
    IF sentences # <<>> THEN [num |-> TotalWords(sentences), den |-> Len(sentences)]
    ELSE [num |-> 0, den |-> 1]

\* analyze_content(content_text) of main.py
analyze_content(text, env, pol, subj, ents) ==
    IF text = <<>> THEN Returned(None)
    ELSE LET word_freq == get_word_frequency(text, ANALYSIS_TOP_N, DEFAULT_MIN_WORD_LENGTH)
             sentences == get_sentences(text)
             sentiment == get_sentiment(env, pol, subj)
             entities == extract_entities(env, ents)
             readability == get_readability_scores(env)
         IN IF entities.raised # "" THEN entities
            ELSE Returned([word_frequency |-> word_freq,
                           sentence_count |-> Len(sentences),
                           average_sentence_length |-> average_sentence_length(sentences),
                           sentiment |-> sentiment.value,
                           entities |-> entities.value,
                           readability |-> readability.value])

\* ---- calls --------------------------------------------------------------

\* Largest top_n, and the min_word_length values, the calls pass.
MaxTopN == 3
MinWordLengths == {DEFAULT_MIN_WORD_LENGTH - 1, DEFAULT_MIN_WORD_LENGTH, DEFAULT_MIN_WORD_LENGTH + 1}

Call(op) == [op |-> op, top_n |-> 0, min_word_length |-> 0, flags |-> <<>>]

Preprocess ==
    /\ aCall.op # "idle"
    /\ \E lc, rp, rs \in BOOLEAN :
        /\ aCall' = [Call("preprocess") EXCEPT !.flags = <<lc, rp, rs>>]
        /\ aRet' = Returned(preprocess(aText, lc, rp, rs))
    /\ UNCHANGED <<aText, aEnv>>
    /\ AnalyzerOnly

GetWordFrequency ==
    /\ aCall.op # "idle"
    /\ \E n \in 0..MaxTopN, m \in MinWordLengths :
        /\ aCall' = [Call("get_word_frequency") EXCEPT !.top_n = n, !.min_word_length = m]
        /\ aRet' = Returned(get_word_frequency(aText, n, m))
    /\ UNCHANGED <<aText, aEnv>>
    /\ AnalyzerOnly

GetSentences ==
    /\ aCall.op # "idle"
    /\ aCall' = Call("get_sentences")
    /\ aRet' = Returned(get_sentences(aText))
    /\ UNCHANGED <<aText, aEnv>>
    /\ AnalyzerOnly

GetSentiment ==
    /\ aCall.op # "idle"
    /\ aCall' = Call("get_sentiment")
    /\ \E pol \in Polarities, subj \in Subjectivities :
        aRet' = get_sentiment(aEnv, pol, subj)
    /\ UNCHANGED <<aText, aEnv>>
    /\ AnalyzerOnly

ExtractEntities ==
    /\ aCall.op # "idle"
    /\ aCall' = Call("extract_entities")
    /\ \E ents \in EntityMappings : aRet' = extract_entities(aEnv, ents)
    /\ aEnv' = env_after_entities(aEnv)
    /\ UNCHANGED aText
    /\ AnalyzerOnly

GetReadabilityScores ==
    /\ aCall.op # "idle"
    /\ aCall' = Call("get_readability_scores")
    /\ aRet' = get_readability_scores(aEnv)
    /\ UNCHANGED <<aText, aEnv>>
    /\ AnalyzerOnly

AnalyzeContent ==
    /\ aCall.op # "idle"
    /\ aCall' = Call("analyze_content")
    /\ \E pol \in Polarities, subj \in Subjectivities, ents \in EntityMappings :
        aRet' = analyze_content(aText, aEnv, pol, subj, ents)
    /\ aEnv' = IF aText = <<>> THEN aEnv ELSE env_after_entities(aEnv)
    /\ UNCHANGED aText
    /\ AnalyzerOnly

AnalyzerNext ==
    \/ Preprocess \/ GetWordFrequency \/ GetSentences \/ GetSentiment
    \/ ExtractEntities \/ GetReadabilityScores \/ AnalyzeContent

\* ---- the texts -----------------------------------------------------------

\* Most words of a generated text.
MaxWords == 3

Vocabulary ==
    {<<"T", "h", "e">>, <<"c", "a", "t">>, <<"C", "a", "t", ".">>, <<"s", "a", "t">>, <<"o", "x">>}

\* "the cat sat on the mat the cat ran"
ExampleText ==
    Join(<<" ">>, <<<<"t", "h", "e">>, <<"c", "a", "t">>, <<"s", "a", "t">>, <<"o", "n">>, <<"t", "h", "e">>, <<"m", "a", "t">>, <<"t", "h", "e">>, <<"c", "a", "t">>, <<"r", "a", "n">>>>)

\* Every text of at most n words of the vocabulary, single spaces between.
TextsUpTo(n) ==
    UNION {{Join(<<" ">>, ws) : ws \in [1..k -> Vocabulary]} : k \in 0..n}

AllInstalled ==
    [textblob |-> "installed", spacy |-> "model-installed",
     download |-> "installs", textstat |-> "installed"]

AnalyzerIdle ==
    /\ aText = <<>> /\ aEnv = AllInstalled
    /\ aCall = Call("idle") /\ aRet = Returned(None)

\* analyzer = TextAnalyzer(text), every optional library in place
WordFreqInit ==
    /\ aText \in TextsUpTo(MaxWords) \cup {ExampleText}
    /\ aEnv = AllInstalled
    /\ aCall = Call("new")
    /\ aRet = Returned(None)

\* analyzer = TextAnalyzer(text), in any installation
AnalyzerInit ==
    /\ aText \in {<<>>, <<" ">>, ExampleText,
                  Join(<<" ">>, <<<<"C", "a", "t", ".">>, <<"s", "a", "t">>>>),
                  Join(<<" ">>, <<<<"C", "a", "t", ".">>, <<"s", "a", "t">>, <<"o", "x">>>>)}
    /\ aEnv \in Envs
    /\ aCall = Call("new")
    /\ aRet = Returned(None)

(***************************************************************************)
(* Properties of the analyzer                                              *)
(***************************************************************************)

\* No named-entity model can be had: the library is missing, or it is there
\* and its model can neither be loaded nor downloaded.
NoEntityModel(env) ==
    env.spacy = "missing" \/ (env.spacy = "model-missing" /\ env.download # "installs")

\* C5 as stated: without a sentiment backend get_sentiment() returns
\* {polarity: 0, subjectivity: 0}; without a named-entity model
\* extract_entities() returns an empty mapping; without a readability backend
\* get_readability_scores() returns an empty mapping; none of these calls
\* raises or ends the process, and analyze_content still returns a result.
C5_AsStated ==
    /\ (aCall.op = "get_sentiment" /\ aEnv.textblob = "missing")
          => aRet.raised = "" /\ aRet.value = [polarity |-> 0, subjectivity |-> 0]
    /\ (aCall.op = "extract_entities" /\ NoEntityModel(aEnv))
          => aRet.raised = "" /\ aRet.value = {}
    /\ (aCall.op = "get_readability_scores" /\ aEnv.textstat = "missing")
          => aRet.raised = "" /\ aRet.value = {}
    /\ (aCall.op = "analyze_content"
            /\ (aEnv.textblob = "missing" \/ NoEntityModel(aEnv) \/ aEnv.textstat = "missing"))
          => aRet.raised = ""

\* The words of a text as they are counted: lowercased, punctuation removed.
CountedForm(word) == SelectSeq([i \in 1..Len(word) |-> LowerChar(word[i])],
                               LAMBDA c : c \notin {".", ",", "!", "?"})
CountedWords(text) ==
    LET raw == split(text)
    IN SelectSeq([k \in 1..Len(raw) |-> CountedForm(raw[k])], LAMBDA t : t # <<>>)

\* A word the frequency counts: not a stopword, long enough.
Qualifies(t, m) == t \notin StopWords /\ Len(t) >= m

FirstPosition(words, t) == CHOOSE i \in DOMAIN words : words[i] = t /\ \A j \in 1..(i - 1) : words[j] # t

\* Entry <<t1, c1>> ranks before <<t2, c2>>: the greater count, and of equal
\* counts the word that occurs first in the text.
RanksBefore(words, e1, e2) ==
    e1[2] > e2[2] \/ (e1[2] = e2[2] /\ FirstPosition(words, e1[1]) < FirstPosition(words, e2[1]))

\* C10: get_word_frequency(top_n, min_word_length) counts exactly the words
\* of the text that, lowercased and without punctuation, are no stopwords and
\* have at least min_word_length characters; with a top_n given it returns
\* the top_n entries (all of them when there are fewer) by descending count,
\* equal counts in the order of first occurrence; on "the cat sat on the mat
\* the cat ran" with top_n = 3 the first entry is ("cat", 2).
C10_WordFrequency ==
    aCall.op = "get_word_frequency" =>
        LET words == CountedWords(aText)
            m == aCall.min_word_length
            n == aCall.top_n
            r == aRet.value
            counted == {words[i] : i \in {j \in DOMAIN words : Qualifies(words[j], m)}}
            keys == {r[i][1] : i \in DOMAIN r}
        IN /\ aRet.raised = ""
           /\ keys \subseteq counted
           /\ \A i \in DOMAIN r :
                /\ r[i][1] = lower(r[i][1])
                /\ r[i][2] = Cardinality({j \in DOMAIN words : words[j] = r[i][1]})
                /\ \A k \in DOMAIN r : i < k => r[i][1] # r[k][1]
           /\ n = 0 => keys = counted
           /\ n > 0 =>
                /\ Len(r) = IF n < Cardinality(counted) THEN n ELSE Cardinality(counted)
                /\ \A i, k \in DOMAIN r : i < k => RanksBefore(words, r[i], r[k])
                /\ \A t \in counted \ keys : \A i \in DOMAIN r :
                      RanksBefore(words, r[i],
                                  <<t, Cardinality({j \in DOMAIN words : words[j] = t})>>)
           /\ (aText = ExampleText /\ n = 3 /\ m = DEFAULT_MIN_WORD_LENGTH)
                => r[1] = <<<<"c", "a", "t">>, 2>>

\* The example of the claim ran: top 3 of "the cat sat on the mat the cat
\* ran" is cat (2), then sat and mat, which tie with ran and occur before it.
C10_Witness ==
    /\ aCall.op = "get_word_frequency"
    /\ aText = ExampleText
    /\ aCall.top_n = 3 /\ aCall.min_word_length = DEFAULT_MIN_WORD_LENGTH
    /\ aRet.value = << <<<<"c", "a", "t">>, 2>>, <<<<"s", "a", "t">>, 1>>, <<<<"m", "a", "t">>, 1>> >>

\* The whitespace-separated tokens of a sentence: the places where a run of
\* non-whitespace characters begins.
WhitespaceTokens(s) ==
    Cardinality({i \in DOMAIN s : s[i] \notin WS /\ (i = 1 \/ s[i - 1] \in WS)})
RECURSIVE SumTokens(_)
SumTokens(ss) == IF ss = <<>> THEN 0 ELSE WhitespaceTokens(Head(ss)) + SumTokens(Tail(ss))

\* C12: the average sentence length of an analysis is the mean number of
\* whitespace-separated tokens per sentence: a quotient with a non-zero
\* divisor (no division by zero) whose value is the token total over the
\* number of sentences, and 0 when there is no sentence.
C12_AverageSentenceLength ==
    (aCall.op = "analyze_content" /\ aRet.raised = "" /\ aText # <<>>) =>
        LET sentences == get_sentences(aText)
            avg == aRet.value.average_sentence_length
        IN /\ avg.den > 0
           /\ sentences = <<>> => avg.num = 0
           /\ sentences # <<>> => avg.num * Len(sentences) = SumTokens(sentences) * avg.den
           /\ aRet.value.sentence_count = Len(sentences)

\* An analysis of two sentences of one and two words was made: the mean is
\* 3/2.
C12_Witness ==
    /\ aCall.op = "analyze_content" /\ aRet.raised = "" /\ aText # <<>>
    /\ Len(get_sentences(aText)) = 2
    /\ aRet.value.average_sentence_length = [num |-> 3, den |-> 2]

(***************************************************************************)
(* Properties of the fetcher's sleeps                                      *)
(***************************************************************************)

IsGet(e) == e.ev \in {"get", "get-error"}
IsSleep(e) == e.ev = "sleep"

\* A jittered delay d with 0.5 * base_delay <= d < 1.5 * base_delay, in tenths
\* of a second, base_delay = 60 / requests_per_minute.
InJitterRange(d) ==
    /\ 2 * d >= 10 * (60 \div REQUESTS_PER_MINUTE)
    /\ 2 * d < 30 * (60 \div REQUESTS_PER_MINUTE)

\* The sleeps of the log that directly follow a GET: the sleeps before a retry.
RetrySleeps == {k \in DOMAIN fLog : IsSleep(fLog[k]) /\ k > 1 /\ IsGet(fLog[k - 1])}

\* C13: every GET of fetch_url, the first included, comes directly after a
\* sleep of a jittered delay d in [0.5 * base_delay, 1.5 * base_delay); a
\* failed attempt with retries left is followed by a sleep of 2 * d, the
\* retry budget goes down by exactly one for it, and only then comes the next
\* attempt with its own sleep; no GET is issued without its preceding sleep.
C13_SleepBeforeEveryGet ==
    /\ \A k \in DOMAIN fLog : IsGet(fLog[k]) =>
          /\ k > 1
          /\ IsSleep(fLog[k - 1])
          /\ InJitterRange(fLog[k - 1].d)
          /\ k > 2 =>
                /\ k > 4
                /\ IsSleep(fLog[k - 2]) /\ IsGet(fLog[k - 3])
                /\ FailedHTTPError(fLog[k - 3])
                /\ fLog[k - 2].d = 2 * fLog[k - 4].d
    /\ \A k \in RetrySleeps : k > 2 /\ fLog[k].d = 2 * fLog[k - 2].d
    /\ fRetry = fBudget - Cardinality(RetrySleeps)
    /\ fRetry >= 0
    /\ (fLog # <<>> /\ IsGet(fLog[Len(fLog)]) /\ FailedHTTPError(fLog[Len(fLog)]) /\ fRetry > 0)
          => fPc = "backoff"
    /\ fPc = "backoff" => (fLog # <<>> /\ IsGet(fLog[Len(fLog)]) /\ fRetry > 0)
    /\ fPc = "get" => (fLog # <<>> /\ IsSleep(fLog[Len(fLog)]) /\ fLog[Len(fLog)].d = fDelay)

\* A failed first attempt was retried: sleep d, GET, sleep 2 * d, sleep d'
\* with another jitter, GET.
C13_Witness ==
    /\ Len(fLog) >= 5
    /\ IsSleep(fLog[1]) /\ IsGet(fLog[2]) /\ FailedHTTPError(fLog[2])
    /\ IsSleep(fLog[3]) /\ fLog[3].d = 2 * fLog[1].d
    /\ IsSleep(fLog[4]) /\ fLog[4].d # fLog[1].d
    /\ IsGet(fLog[5])
    /\ fRetry = fBudget - 1

RECURSIVE SumDelays(_, _)
\* The delays of the log entries at the positions ks, added up.
SumDelays(log, ks) ==
    IF ks = {} THEN 0
    ELSE LET k == CHOOSE x \in ks : TRUE IN log[k].d + SumDelays(log, ks \ {k})

\* The time slept in all, and the jittered delays drawn for the attempts (the
\* sleep before each GET).
TotalSlept == SumDelays(fLog, {k \in DOMAIN fLog : IsSleep(fLog[k])})
AttemptDelays == {k \in DOMAIN fLog : IsSleep(fLog[k]) /\ k < Len(fLog) /\ IsGet(fLog[k + 1])}

\* fetch_url has returned None after 1 + N attempts that all failed.
AllAttemptsFailed ==
    /\ fPc = "done" /\ fResult = None /\ Attempts = fBudget + 1
    /\ \A i \in 1..Attempts : FailedHTTPError(GetEvents[i])

\* C14 as stated: when every attempt failed, the time slept in all is the sum
\* of the jittered delays of the 1 + N attempts.
C14_AsStated ==
    AllAttemptsFailed =>
        /\ Cardinality(AttemptDelays) = fBudget + 1
        /\ TotalSlept = SumDelays(fLog, AttemptDelays)

\* C14 (amended): when every attempt failed, the time slept in all is the sum
\* of the jittered delays of the 1 + N attempts plus twice the delay of each
\* attempt that was retried (every attempt but the last).
C14_TotalSleep ==
    AllAttemptsFailed =>
        /\ Cardinality(AttemptDelays) = fBudget + 1
        /\ \A k \in AttemptDelays : InJitterRange(fLog[k].d)
        /\ TotalSlept = SumDelays(fLog, AttemptDelays)
                          + 2 * SumDelays(fLog, {k \in AttemptDelays : k + 1 < Len(fLog)})

\* Every attempt of a call with retries failed, and the attempts did not all
\* draw the same delay.
C14_Witness ==
    /\ AllAttemptsFailed /\ fBudget >= 1
    /\ \E j, k \in AttemptDelays : fLog[j].d # fLog[k].d

(***************************************************************************)
(* Properties of the ArticleParser's strategies                            *)
(***************************************************************************)

\* The first element of the document, in document order, among those at the
\* positions S; 0 when there is none.
FirstOf(S) == IF S = {} THEN 0 ELSE CHOOSE x \in S : \A y \in S : x <= y

\* The stripped text of the element at i in the whole document.
ElementText(d, i) == GetText(d, DOMAIN d, i, <<>>, TRUE)

\* The author of a document as the four strategies are stated: a class
\* matching author|byline on an a, span, div or p; any element with
\* rel="author"; any element with itemprop="author"; a name attribute
\* matching author; the text of the element of the first strategy that finds
\* one, None when none does.
AuthorAsStated(d) ==
    LET els == {i \in DOMAIN d : ~IsText(d[i])}
        byClass == FirstOf({i \in els : d[i].tag \in {"a", "span", "div", "p"}
                                          /\ d[i].cls # NoAttr /\ MatchesAuthorRe(d[i].cls)})
        byRel == FirstOf({i \in els : d[i].rel = "author"})
        byItemprop == FirstOf({i \in els : d[i].itemprop = "author"})
        byName == FirstOf({i \in els : d[i].name = "author"})
    IN IF byClass # 0 THEN ElementText(d, byClass)
       ELSE IF byRel # 0 THEN ElementText(d, byRel)
       ELSE IF byItemprop # 0 THEN ElementText(d, byItemprop)
       ELSE IF byName # 0 THEN ElementText(d, byName)
       ELSE None

\* C15 as stated: get_author() on a parsed document returns the text of the
\* element found by the first of the four strategies that matches, and None
\* exactly when no strategy matches.
C15_AsStated ==
    (lastCall = "get_author" /\ soup = Parse(html)) => ret = AuthorAsStated(html)

\* The publish date of a document as the three strategies are stated: the
\* content of a published_time meta tag; the datetime attribute of the first
\* <time> element if it has one; the text of the first span, div or p whose
\* class matches date|time|publish; the value of the first strategy that has
\* one, None only when none has.
DateAsStated(d) ==
    LET els == {i \in DOMAIN d : ~IsText(d[i])}
        meta_date == FirstOf({i \in els : d[i].tag = "meta"
                                            /\ d[i].property \in PublishedTimeProperties})
        time_tag == FirstOf({i \in els : d[i].tag = "time"})
        date_tag == FirstOf({i \in els : d[i].tag \in {"span", "div", "p"}
                                           /\ d[i].cls # NoAttr /\ MatchesDateRe(d[i].cls)})
    IN IF meta_date # 0 /\ d[meta_date].content # None THEN d[meta_date].content
       ELSE IF time_tag # 0 /\ d[time_tag].datetime # None THEN d[time_tag].datetime
       ELSE IF date_tag # 0 THEN ElementText(d, date_tag)
       ELSE None

\* C16 as stated: get_publish_date() on a parsed document returns the value
\* of the first of the three strategies that matches, and None only when
\* none of them matches.
C16_AsStated ==
    (lastCall = "get_publish_date" /\ soup = Parse(html)) => ret = DateAsStated(html)

(***************************************************************************)
(* Properties of scrape_url                                                *)
(***************************************************************************)

\* C17 as stated: each field of the record scrape_url builds is what the
\* corresponding accessor returns on the freshly parsed page.
C17_AsStated ==
    (lastCall = "scrape_url" /\ ret.kind = "record") =>
        /\ ret.title = Value("get_title", html, Parse(html))
        /\ ret.meta_description = Value("get_meta_description", html, Parse(html))
        /\ ret.content_text = Value("get_clean_text", html, Parse(html))
        /\ ret.author = Value("get_author", html, Parse(html))
        /\ ret.published_date = Value("get_publish_date", html, Parse(html))

\* Some attempt of the fetch got a 2xx response.
Got2xx == \E i \in 1..Attempts : ~FailedNon2xx(GetEvents[i])

\* C18 as stated: scrape_url returns a record exactly when some attempt got
\* a 2xx response and None exactly when every attempt failed (non-2xx status
\* or transport error), and a 2xx response is never logged as "Failed to
\* fetch".
C18_AsStated ==
    lastCall = "scrape_url" =>
        /\ ret.kind = "record" <=> Got2xx
        /\ ret.kind = "none" <=> ~Got2xx
        /\ Got2xx => \A k \in DOMAIN mLog : mLog[k].msg # "Failed to fetch"

vars == <<fetchVars, parserVars, mainVars, analyzerVars>>

InitFetch == FetchInit /\ ParserIdle /\ MainIdle /\ AnalyzerIdle
SpecFetch == InitFetch /\ [][FetchNext]_vars

InitClean == ParserInit(CleanPalette, MaxNodes) /\ FetchIdle /\ MainIdle /\ AnalyzerIdle
SpecClean == InitClean /\ [][ParserNext]_vars

InitArticle == ParserInit(ArticlePalette, MaxNodes) /\ FetchIdle /\ MainIdle /\ AnalyzerIdle
SpecArticle == InitArticle /\ [][ParserNext]_vars

InitMarkers == ParserInit(MarkerPalette, MaxNodes) /\ FetchIdle /\ MainIdle /\ AnalyzerIdle
SpecMarkers == InitMarkers /\ [][ParserNext]_vars

InitRecord == ParserInit(RecordPalette, MaxNodes + 1) /\ FetchIdle /\ MainIdle /\ AnalyzerIdle
SpecRecord == InitRecord /\ [][RecordNext]_vars

InitScrape == ScrapeInit /\ ParserIdle /\ MainIdle /\ AnalyzerIdle
SpecScrape == InitScrape /\ [][ScrapeNext]_vars

InitMain == ParserInit(MainPalette, MaxNodes + 1) /\ FetchIdle /\ MainIdle /\ AnalyzerIdle
\* The calls that read or change what get_main_content looks at.
MainContentNext == GetMainContent \/ GetCleanText
SpecMain == InitMain /\ [][MainContentNext]_vars

InitBatch == MainInit /\ FetchIdle /\ ParserIdle /\ AnalyzerIdle
SpecBatch == InitBatch /\ [][MainNext]_vars

InitWordFreq == WordFreqInit /\ FetchIdle /\ ParserIdle /\ MainIdle
SpecWordFreq == InitWordFreq /\ [][AnalyzerNext]_vars

InitAnalyzer == AnalyzerInit /\ FetchIdle /\ ParserIdle /\ MainIdle
SpecAnalyzer == InitAnalyzer /\ [][AnalyzerNext]_vars

====
